---- MODULE Spec2Model ----
(***************************************************************************)
(* A model of src/streamlit_app.py: a Streamlit script that loads a weekly *)
(* traffic table, normalises it, resolves the selected week to a row pair, *)
(* shows KPI values with week-over-week deltas, detects surges, and hands  *)
(* an evidence summary to a text-generation service whose answer is kept   *)
(* in the session.                                                         *)
(*                                                                         *)
(* Text is modelled as a sequence of one-character strings, so that        *)
(* stripping, parsing and formatting are computed, not assumed.            *)
(* The Korean column names of the source are written in ASCII here:        *)
(*   "week"       the week column                    (line 143)            *)
(*   "bc_PV"      broadcast page views               (line 230)            *)
(*   "news_PV"    news page views                    (line 202)            *)
(*   "bc_UV"      broadcast users                    (line 239)            *)
(*   "bc_AOS_dl"  broadcast AOS downloads            (line 168)            *)
(*   "bc_iOS_dl"  broadcast iOS downloads            (line 168)            *)
(*   "news_UV"    first news-user candidate          (line 183)            *)
(*   "total_mem", "conv_mem", "new_mem", "churn_mem" (lines 132-135)       *)
(***************************************************************************)
EXTENDS Integers, Sequences, FiniteSets, TLC

(***************************************************************************)
(* Text helpers                                                            *)
(***************************************************************************)
Digits == {"0", "1", "2", "3", "4", "5", "6", "7", "8", "9"}

DigitVal(c) ==
  CASE c = "0" -> 0 [] c = "1" -> 1 [] c = "2" -> 2 [] c = "3" -> 3
    [] c = "4" -> 4 [] c = "5" -> 5 [] c = "6" -> 6 [] c = "7" -> 7
    [] c = "8" -> 8 [] c = "9" -> 9

DigitChar(d) ==
  CASE d = 0 -> "0" [] d = 1 -> "1" [] d = 2 -> "2" [] d = 3 -> "3"
    [] d = 4 -> "4" [] d = 5 -> "5" [] d = 6 -> "6" [] d = 7 -> "7"
    [] d = 8 -> "8" [] d = 9 -> "9"

Abs(n) == IF n < 0 THEN 0 - n ELSE n

\* str.strip(): leading and trailing blanks removed
RECURSIVE StripLeft(_)
StripLeft(s) ==
  IF s # <<>> /\ s[1] = " " THEN StripLeft(Tail(s)) ELSE s

RECURSIVE StripRight(_)
StripRight(s) ==
  IF s # <<>> /\ s[Len(s)] = " "
  THEN StripRight(SubSeq(s, 1, Len(s) - 1))
  ELSE s

Strip(s) == StripRight(StripLeft(s))

\* str.replace(ch, "") for a one-character ch
RemoveChar(s, ch) == SelectSeq(s, LAMBDA c : c # ch)

RECURSIVE DigitsValue(_)
DigitsValue(s) ==
  IF s = <<>> THEN 0
  ELSE DigitsValue(SubSeq(s, 1, Len(s) - 1)) * 10 + DigitVal(s[Len(s)])

\* An optionally signed run of decimal digits, the number texts of this model
IsIntText(s) ==
  LET body == IF s # <<>> /\ s[1] \in {"-", "+"} THEN Tail(s) ELSE s
  IN  body # <<>> /\ \A i \in 1..Len(body) : body[i] \in Digits

IntTextValue(s) ==
  IF s[1] = "-" THEN 0 - DigitsValue(Tail(s))
  ELSE IF s[1] = "+" THEN DigitsValue(Tail(s))
  ELSE DigitsValue(s)

RECURSIVE NatText(_)
NatText(n) ==
  IF n < 10 THEN <<DigitChar(n)>>
  ELSE Append(NatText(n \div 10), DigitChar(n % 10))

\* the "," option of a format spec: groups of three digits
RECURSIVE GroupText(_)
GroupText(n) ==
  IF n < 1000 THEN NatText(n)
  ELSE GroupText(n \div 1000) \o
       <<",", DigitChar((n % 1000) \div 100), DigitChar((n % 100) \div 10),
         DigitChar(n % 10)>>

(***************************************************************************)
(* Python values: None, a number, a string                                 *)
(***************************************************************************)
PyNone == [t |-> "None"]
Num(n) == [t |-> "num", v |-> n]
Str(s) == [t |-> "str", s |-> s]

IsNone(x) == x.t = "None"

\* float(x): ok is FALSE where Python raises TypeError or ValueError
FloatOf(x) ==
  CASE x.t = "num" -> [ok |-> TRUE, v |-> x.v]
    [] x.t = "str" ->
         IF IsIntText(Strip(x.s))
         THEN [ok |-> TRUE, v |-> IntTextValue(Strip(x.s))]
         ELSE [ok |-> FALSE, v |-> 0]
    [] OTHER -> [ok |-> FALSE, v |-> 0]

NA == <<"N", "/", "A">>

\* f"{n:+,.0f}" and f"{n:,.0f}" of a whole number n
FormatInt0(n, plus) ==
  (IF n < 0 THEN <<"-">> ELSE IF plus THEN <<"+">> ELSE <<>>)
    \o GroupText(Abs(n))

\* f"{x:+.1f}" and f"{x:.1f}" of x = num / den * 100, den # 0.  The quotient
\* is rounded to tenths; the sign is that of the quotient, kept when the
\* tenths round to zero ("-0.0").  An exact half goes to the even tenth:
\* Python rounds the binary value of x, and on the inputs of this model an
\* exact half arises only for quotients the float holds exactly (den a
\* multiple of 16 with 125 * num a multiple of den / 16, such as 1 / 16 or
\* 1 / 80), where the binary value is the half itself.  For other operands
\* (1 / 2000) the float may lie to either side of the half.
FormatFixed1(num, den, plus) ==
  LET neg    == (num * den < 0) \/ (num = 0 /\ den < 0)
      a      == Abs(num) * 1000
      b      == Abs(den)
      fl     == a \div b
      rem2   == 2 * (a % b)
      tenths == IF rem2 > b \/ (rem2 = b /\ fl % 2 = 1) THEN fl + 1 ELSE fl
  IN  (IF neg THEN <<"-">> ELSE IF plus THEN <<"+">> ELSE <<>>)
        \o NatText(tenths \div 10) \o <<".", DigitChar(tenths % 10)>>

(***************************************************************************)
(* fmt_delta (lines 48-60)                                                 *)
(***************************************************************************)
\* fmt_delta without its try/except: a failed float() is not turned to N/A
fmt_delta_unguarded(curr, prev) ==
  IF IsNone(prev) THEN NA
  ELSE LET prev_val == FloatOf(prev)
           curr_val == FloatOf(curr)
       IN  IF ~prev_val.ok \/ ~curr_val.ok THEN <<"r", "a", "i", "s", "e">>
           ELSE IF prev_val.v = 0 THEN NA
           ELSE FormatFixed1(curr_val.v - prev_val.v, prev_val.v, TRUE)
                  \o <<"%">>

\* fmt_delta dividing by the current value instead of the previous one
fmt_delta_over_curr(curr, prev) ==
  IF IsNone(prev) THEN NA
  ELSE LET prev_val == FloatOf(prev)
           curr_val == FloatOf(curr)
       IN  IF ~prev_val.ok \/ ~curr_val.ok THEN NA
           ELSE IF prev_val.v = 0 THEN NA
           ELSE IF curr_val.v = 0 THEN NA
           ELSE FormatFixed1(curr_val.v - prev_val.v, curr_val.v, TRUE)
                  \o <<"%">>

fmt_delta(curr, prev) ==
  IF IsNone(prev) THEN NA
  ELSE LET prev_val == FloatOf(prev)
           curr_val == FloatOf(curr)
       IN  IF ~prev_val.ok \/ ~curr_val.ok THEN NA
           ELSE IF prev_val.v = 0 THEN NA
           ELSE FormatFixed1(curr_val.v - prev_val.v, prev_val.v, TRUE)
                  \o <<"%">>

(***************************************************************************)
(* fmt_abs_delta (lines 719-727)                                           *)
(***************************************************************************)
\* fmt_abs_delta without the None test: a missing previous value reads as 0
fmt_abs_delta_none_as_zero(curr, prev) ==
  LET c == FloatOf(curr)
      p == IF IsNone(prev) THEN [ok |-> TRUE, v |-> 0] ELSE FloatOf(prev)
  IN  IF ~c.ok \/ ~p.ok THEN NA
      ELSE FormatInt0(c.v - p.v, TRUE)

fmt_abs_delta(curr, prev) ==
  IF IsNone(prev) THEN NA
  ELSE LET c == FloatOf(curr)
           p == FloatOf(prev)
       IN  IF ~c.ok \/ ~p.ok THEN NA
           ELSE FormatInt0(c.v - p.v, TRUE)

(***************************************************************************)
(* check_surge (lines 652-667): the alerts list after the call.  The       *)
(* threshold is given in hundredths (0.1 is 10).                           *)
(***************************************************************************)
AlertLine(label, curr_val, prev_val) ==
  [label     |-> label,
   pct       |-> FormatFixed1(curr_val - prev_val, prev_val, FALSE) \o <<"%">>,
   direction |-> IF (curr_val - prev_val) * prev_val > 0
                 THEN "surge" ELSE "drop",
   prev      |-> FormatInt0(prev_val, FALSE),
   curr      |-> FormatInt0(curr_val, FALSE)]

SurgeReached(curr_val, prev_val, threshold) ==
  Abs(curr_val - prev_val) * 100 >= threshold * Abs(prev_val)

\* check_surge with a strict comparison: a change equal to the threshold
\* is not reported
check_surge_strict(alerts, label, curr, prev, threshold) ==
  IF IsNone(prev) THEN alerts
  ELSE LET prev_val == FloatOf(prev)
           curr_val == FloatOf(curr)
       IN  IF ~prev_val.ok \/ ~curr_val.ok THEN alerts
           ELSE IF prev_val.v = 0 THEN alerts
           ELSE IF Abs(curr_val.v - prev_val.v) * 100
                     > threshold * Abs(prev_val.v)
                THEN Append(alerts, AlertLine(label, curr_val.v, prev_val.v))
                ELSE alerts

\* check_surge reporting a rise from a zero baseline as a surge
check_surge_zero_baseline(alerts, label, curr, prev, threshold) ==
  IF IsNone(prev) THEN alerts
  ELSE LET prev_val == FloatOf(prev)
           curr_val == FloatOf(curr)
       IN  IF ~prev_val.ok \/ ~curr_val.ok THEN alerts
           ELSE IF prev_val.v = 0
                THEN IF curr_val.v # 0
                     THEN Append(alerts, AlertLine(label, curr_val.v, 1))
                     ELSE alerts
           ELSE IF SurgeReached(curr_val.v, prev_val.v, threshold)
                THEN Append(alerts, AlertLine(label, curr_val.v, prev_val.v))
                ELSE alerts

check_surge(alerts, label, curr, prev, threshold) ==
  IF IsNone(prev) THEN alerts
  ELSE LET prev_val == FloatOf(prev)
           curr_val == FloatOf(curr)
       IN  IF ~prev_val.ok \/ ~curr_val.ok THEN alerts
           ELSE IF prev_val.v = 0 THEN alerts
           ELSE IF SurgeReached(curr_val.v, prev_val.v, threshold)
                THEN Append(alerts, AlertLine(label, curr_val.v, prev_val.v))
                ELSE alerts

(***************************************************************************)
(* Tables.  A table is [columns, rows]: the set of column names and the    *)
(* rows in file order, each row a function from the columns to a cell.     *)
(* A raw cell is the text astype(str) gives; a normalised cell is a        *)
(* Python value.  Row positions are 0-based, as the RangeIndex of the      *)
(* frame read_csv builds.                                                  *)
(***************************************************************************)
NoRow == -1

RowCount(df) == Len(df.rows)

Positions(df) == 0..(RowCount(df) - 1)

RowAt(df, i) == df.rows[i + 1]

\* Series.get(key, default) on the row at position i (lines 168-172 and on)
Get(df, i, col, default) ==
  IF col \in df.columns THEN RowAt(df, i)[col] ELSE default

\* is_text_col (lines 21-29)
is_text_col(col) ==
  \/ col \in {"week", "date", "Date"}
  \/ col \in {"news_kw1_rank", "news_kw2_rank", "news_kw3_rank"}

\* NumericCell without line 40: a percent sign is left in the text
NumericCellKeepsPercent(cell) ==
  LET s == RemoveChar(cell, ",")
  IN  Num(IF IsIntText(s) THEN IntTextValue(s) ELSE 0)

\* one cell of a numeric column (lines 36-43): commas, then percent signs
\* removed, to_numeric with errors="coerce", NaN filled with 0
NumericCell(cell) ==
  LET s == RemoveChar(RemoveChar(cell, ","), "%")
  IN  Num(IF IsIntText(s) THEN IntTextValue(s) ELSE 0)

\* one cell of a text column (line 33)
TextCell(cell) == Str(Strip(cell))

\* preprocess_data (lines 15-45)
preprocess_data(raw) ==
  [columns |-> raw.columns,
   rows    |-> [i \in 1..Len(raw.rows) |->
                 [col \in raw.columns |->
                   IF is_text_col(col) THEN TextCell(raw.rows[i][col])
                   ELSE NumericCell(raw.rows[i][col])]]]

\* df["week"].astype(str) at position i (lines 143, 155)
WeekAt(df, i) == RowAt(df, i)["week"]

\* weeks (line 143): the week labels, newest first
WeekOptions(df) ==
  [k \in 1..RowCount(df) |-> WeekAt(df, RowCount(df) - k)]

Min(S) == CHOOSE m \in S : \A n \in S : m <= n

(***************************************************************************)
(* latest / prev resolution (lines 155-163).  raised is TRUE where iloc    *)
(* raises IndexError (an empty table and no matching row).                 *)
(***************************************************************************)
\* Resolve with prev taken by iloc[idx - 1], which wraps to the last row
ResolveWrapAround(df, selected_week) ==
  LET mask == {i \in Positions(df) : WeekAt(df, i) = selected_week}
  IN  IF mask # {}
      THEN LET idx == Min(mask)
           IN  [raised |-> FALSE,
                latest |-> idx,
                prev   |-> IF idx = 0 THEN RowCount(df) - 1 ELSE idx - 1]
      ELSE IF RowCount(df) = 0
           THEN [raised |-> TRUE, latest |-> NoRow, prev |-> NoRow]
           ELSE [raised |-> FALSE,
                 latest |-> RowCount(df) - 1,
                 prev   |-> IF RowCount(df) > 1
                            THEN RowCount(df) - 2 ELSE NoRow]

\* Resolve whose fallback takes iloc[-1] for both rows
ResolveFallbackSameRow(df, selected_week) ==
  LET mask == {i \in Positions(df) : WeekAt(df, i) = selected_week}
  IN  IF mask # {}
      THEN LET idx == Min(mask)
           IN  [raised |-> FALSE,
                latest |-> idx,
                prev   |-> IF (idx - 1) \in Positions(df)
                           THEN idx - 1 ELSE NoRow]
      ELSE IF RowCount(df) = 0
           THEN [raised |-> TRUE, latest |-> NoRow, prev |-> NoRow]
           ELSE [raised |-> FALSE,
                 latest |-> RowCount(df) - 1,
                 prev   |-> RowCount(df) - 1]

\* Resolve taking the position of the selection in weeks (line 143, newest
\* first) as the position in the table
ResolveByOptionIndex(df, selected_week) ==
  LET hits == {k \in 1..RowCount(df) : WeekOptions(df)[k] = selected_week}
  IN  IF hits # {}
      THEN LET idx == Min(hits) - 1
           IN  [raised |-> FALSE,
                latest |-> idx,
                prev   |-> IF (idx - 1) \in Positions(df)
                           THEN idx - 1 ELSE NoRow]
      ELSE IF RowCount(df) = 0
           THEN [raised |-> TRUE, latest |-> NoRow, prev |-> NoRow]
           ELSE [raised |-> FALSE,
                 latest |-> RowCount(df) - 1,
                 prev   |-> IF RowCount(df) > 1
                            THEN RowCount(df) - 2 ELSE NoRow]

Resolve(df, selected_week) ==
  LET mask == {i \in Positions(df) : WeekAt(df, i) = selected_week}
  IN  IF mask # {}
      THEN LET idx == Min(mask)
           IN  [raised |-> FALSE,
                latest |-> idx,
                prev   |-> IF (idx - 1) \in Positions(df)
                           THEN idx - 1 ELSE NoRow]
      ELSE IF RowCount(df) = 0
           THEN [raised |-> TRUE, latest |-> NoRow, prev |-> NoRow]
           ELSE [raised |-> FALSE,
                 latest |-> RowCount(df) - 1,
                 prev   |-> IF RowCount(df) > 1
                            THEN RowCount(df) - 2 ELSE NoRow]

(***************************************************************************)
(* Metric access (lines 168-172, 183-186, 200-291, 670-677)                *)
(***************************************************************************)
PyAdd(a, b) == Num(a.v + b.v)

\* the sum taken only when both columns are present, else 0 (the rule of
\* lines 324-327) in place of the two defaulted accessors
AppDownloadsBothOrZero(df, i) ==
  IF {"bc_AOS_dl", "bc_iOS_dl"} \subseteq df.columns
  THEN PyAdd(RowAt(df, i)["bc_AOS_dl"], RowAt(df, i)["bc_iOS_dl"])
  ELSE Num(0)

\* curr_app (line 168) and the same sum for any row (lines 170, 250, 748)
AppDownloads(df, i) ==
  PyAdd(Get(df, i, "bc_AOS_dl", Num(0)), Get(df, i, "bc_iOS_dl", Num(0)))

\* prev_app (lines 169-172)
PrevAppDownloads(df, prev) ==
  IF prev # NoRow THEN AppDownloads(df, prev) ELSE PyNone

\* prev.get(col, default) if prev is not None else None
PrevGet(df, prev, col, default) ==
  IF prev # NoRow THEN Get(df, prev, col, default) ELSE PyNone

\* news_uv_col_kpi (lines 183-184): the first candidate that is a column
NEWS_UV_COL_CANDIDATES == <<"news_UV", "news_UV2", "news_UV3", "news_UV4">>

NewsUvCol(df) ==
  LET hits == {k \in 1..Len(NEWS_UV_COL_CANDIDATES) :
                 NEWS_UV_COL_CANDIDATES[k] \in df.columns}
  IN  IF hits = {} THEN "" ELSE NEWS_UV_COL_CANDIDATES[Min(hits)]

\* one st.metric: the label, the value as f"{v:,.0f}", the delta text
Metric(label, curr, prev) ==
  [label |-> label, value |-> FormatInt0(curr.v, FALSE),
   delta |-> fmt_delta(curr, prev)]

ColumnMetric(label, df, latest, prev, col) ==
  Metric(label, Get(df, latest, col, Num(0)), PrevGet(df, prev, col, Num(0)))

\* the KPI section (lines 180-291), in the order the script renders it
KpiSection(df, latest, prev) ==
  LET uv == NewsUvCol(df)
  IN  << ColumnMetric("news PV", df, latest, prev, "news_PV"),
         Metric("news UV",
                IF uv # "" THEN Get(df, latest, uv, Num(0)) ELSE Num(0),
                IF prev # NoRow /\ uv # ""
                THEN Get(df, prev, uv, Num(0)) ELSE PyNone),
         Metric("app downloads", AppDownloads(df, latest),
                PrevAppDownloads(df, prev)),
         ColumnMetric("broadcast PV", df, latest, prev, "bc_PV"),
         ColumnMetric("broadcast UV", df, latest, prev, "bc_UV"),
         Metric("broadcast app downloads", AppDownloads(df, latest),
                PrevAppDownloads(df, prev)),
         ColumnMetric("total members", df, latest, prev, "total_mem"),
         ColumnMetric("converted members", df, latest, prev, "conv_mem"),
         ColumnMetric("new members", df, latest, prev, "new_mem"),
         ColumnMetric("churned members", df, latest, prev, "churn_mem") >>

(***************************************************************************)
(* The chart sections (lines 301-640).  plotly express raises ValueError   *)
(* for a y column the frame lacks; the script names these columns          *)
(* unconditionally (lines 344, 522, 528, 567, 590).                        *)
(***************************************************************************)
ChartColumns == {"week", "news_PV", "bc_PV", "bc_UV", "bc_AOS_dl", "bc_iOS_dl"}

ChartsRaise(df) == ~(ChartColumns \subseteq df.columns)

\* n_weeks (lines 316-317) for the radio's default option, "last year"
n_weeks == 52

\* df_range = df.tail(n_weeks) (line 319): the positions kept, oldest first
RangePositions(df) ==
  LET n     == RowCount(df)
      first == IF n > n_weeks THEN n - n_weeks ELSE 0
  IN  [k \in 1..(n - first) |-> first + k - 1]

\* the derived column of df2 (lines 324-327) at position i: the sum when
\* both source columns are present, else the constant 0
DerivedAppDownloads(df, i) ==
  IF "bc_AOS_dl" \in df.columns /\ "bc_iOS_dl" \in df.columns
  THEN PyAdd(RowAt(df, i)["bc_AOS_dl"], RowAt(df, i)["bc_iOS_dl"])
  ELSE Num(0)

\* the columns the charts before line 534 name (lines 344, 522, 528)
ColumnsBeforeAppChart == {"week", "news_PV", "bc_PV", "bc_UV"}

\* the series of the bar chart at line 534, one bar per row of the range;
\* empty where an earlier chart raised
AppChart(df) ==
  IF ColumnsBeforeAppChart \subseteq df.columns
  THEN LET pos == RangePositions(df)
       IN  [k \in 1..Len(pos) |->
              [pos |-> pos[k], week |-> WeekAt(df, pos[k]).s,
               value |-> DerivedAppDownloads(df, pos[k]).v]]
  ELSE <<>>

(***************************************************************************)
(* The surge section (lines 650-677): thresholds in hundredths             *)
(***************************************************************************)
\* the surge section with every call left at the default threshold of
\* check_surge (0.1, line 652)
SurgeSectionDefaultThreshold(df, latest, prev) ==
  LET a1 == check_surge(<<>>, "broadcast PV", Get(df, latest, "bc_PV", Num(0)),
                        PrevGet(df, prev, "bc_PV", PyNone), 10)
      a2 == check_surge(a1, "news PV", Get(df, latest, "news_PV", Num(0)),
                        PrevGet(df, prev, "news_PV", PyNone), 10)
      a3 == check_surge(a2, "broadcast app downloads",
                        AppDownloads(df, latest),
                        PrevAppDownloads(df, prev), 10)
      a4 == check_surge(a3, "new members", Get(df, latest, "new_mem", Num(0)),
                        PrevGet(df, prev, "new_mem", PyNone), 10)
      a5 == check_surge(a4, "churned members",
                        Get(df, latest, "churn_mem", Num(0)),
                        PrevGet(df, prev, "churn_mem", PyNone), 10)
  IN  check_surge(a5, "converted members",
                  Get(df, latest, "conv_mem", Num(0)),
                  PrevGet(df, prev, "conv_mem", PyNone), 10)

SurgeSection(df, latest, prev) ==
  LET a1 == check_surge(<<>>, "broadcast PV", Get(df, latest, "bc_PV", Num(0)),
                        PrevGet(df, prev, "bc_PV", PyNone), 10)
      a2 == check_surge(a1, "news PV", Get(df, latest, "news_PV", Num(0)),
                        PrevGet(df, prev, "news_PV", PyNone), 10)
      a3 == check_surge(a2, "broadcast app downloads",
                        AppDownloads(df, latest),
                        PrevAppDownloads(df, prev), 15)
      a4 == check_surge(a3, "new members", Get(df, latest, "new_mem", Num(0)),
                        PrevGet(df, prev, "new_mem", PyNone), 20)
      a5 == check_surge(a4, "churned members",
                        Get(df, latest, "churn_mem", Num(0)),
                        PrevGet(df, prev, "churn_mem", PyNone), 20)
  IN  check_surge(a5, "converted members",
                  Get(df, latest, "conv_mem", Num(0)),
                  PrevGet(df, prev, "conv_mem", PyNone), 5)

(***************************************************************************)
(* The evidence summary (lines 710-769)                                    *)
(***************************************************************************)
tail_n == 8

\* df.head(tail_n) in place of df.tail(tail_n)
HeadPositions(df) ==
  LET n == RowCount(df)
  IN  [k \in 1..(IF n > tail_n THEN tail_n ELSE n) |-> k - 1]

\* df.tail(tail_n) (line 711): the positions kept, oldest first
TailPositions(df) ==
  LET n     == RowCount(df)
      first == IF n > tail_n THEN n - tail_n ELSE 0
  IN  [k \in 1..(n - first) |-> first + k - 1]

\* safe_int (lines 713-717)
safe_int(x) ==
  LET f == FloatOf(x) IN IF f.ok THEN f.v ELSE 0

\* one entry of tail_rows (lines 743-753)
Snapshot(df, i) ==
  [week      |-> Get(df, i, "week", Str(<<>>)).s,
   bc_PV     |-> safe_int(Get(df, i, "bc_PV", Num(0))),
   news_PV   |-> safe_int(Get(df, i, "news_PV", Num(0))),
   bc_UV     |-> safe_int(Get(df, i, "bc_UV", Num(0))),
   app_dl    |-> safe_int(AppDownloads(df, i)),
   total_mem |-> safe_int(Get(df, i, "total_mem", Num(0))),
   conv_mem  |-> safe_int(Get(df, i, "conv_mem", Num(0))),
   new_mem   |-> safe_int(Get(df, i, "new_mem", Num(0))),
   churn_mem |-> safe_int(Get(df, i, "churn_mem", Num(0)))]

\* tail_rows (lines 741-753)
TailRows(df) ==
  LET pos == TailPositions(df)
  IN  [k \in 1..Len(pos) |-> Snapshot(df, pos[k])]

\* one line of the KPI block of data_summary (line 760)
SummaryLine(label, curr, p) ==
  [label |-> label, curr |-> FormatInt0(curr.v, FALSE),
   pct |-> fmt_delta(curr, p), abs |-> fmt_abs_delta(curr, p)]

SummaryColumn(label, df, latest, prev, col) ==
  SummaryLine(label, Get(df, latest, col, Num(0)),
              PrevGet(df, prev, col, Num(0)))

\* metrics (lines 729-738), in dictionary order
SummaryMetrics(df, latest, prev) ==
  << SummaryColumn("broadcast PV", df, latest, prev, "bc_PV"),
     SummaryColumn("news PV", df, latest, prev, "news_PV"),
     SummaryColumn("broadcast UV", df, latest, prev, "bc_UV"),
     SummaryLine("app downloads", AppDownloads(df, latest),
                 PrevAppDownloads(df, prev)),
     SummaryColumn("total members", df, latest, prev, "total_mem"),
     SummaryColumn("converted members", df, latest, prev, "conv_mem"),
     SummaryColumn("new members", df, latest, prev, "new_mem"),
     SummaryColumn("churned members", df, latest, prev, "churn_mem") >>

\* data_summary (lines 755-769); the prompt (lines 774-816) adds fixed text
\* and the same week label
DataSummary(df, latest, prev, alerts) ==
  [week      |-> Get(df, latest, "week", Str(<<>>)).s,
   kpis      |-> SummaryMetrics(df, latest, prev),
   alerts    |-> alerts,
   tail_rows |-> TailRows(df)]

NoPrompt == [week |-> <<>>, kpis |-> <<>>, alerts |-> <<>>, tail_rows |-> <<>>]

(***************************************************************************)
(* The report section (lines 694-832).  ai_report is Absent before the     *)
(* first run that reaches line 694, then None or the generated text.  The  *)
(* text is opaque; the model tags it with the prompt it answers.           *)
(* click: "none", "generate" (line 698), "regenerate" (line 830).          *)
(* gen: what the service does: "ok", "configure_raises" (lines 704-705),   *)
(* "generate_raises" (lines 821-822).                                      *)
(***************************************************************************)
Absent == [t |-> "absent"]

Report(prompt) == [t |-> "report", from |-> prompt]

GenOutcomes == {"ok", "configure_raises", "generate_raises"}

\* the report section storing the error text as the report
ReportSectionKeepsError(ai_report, api_key, click, gen, summary) ==
  LET ai0 == IF ai_report = Absent THEN PyNone ELSE ai_report
  IN  IF IsNone(ai0)
      THEN IF click # "generate"
           THEN [ai_report |-> ai0, messages |-> {}, invoked |-> FALSE,
                 rerun |-> FALSE, shown |-> PyNone, buttons |-> {"generate"}]
           ELSE IF api_key = ""
           THEN [ai_report |-> ai0, messages |-> {"need_api_key"},
                 invoked |-> FALSE, rerun |-> FALSE, shown |-> PyNone,
                 buttons |-> {"generate"}]
           ELSE IF gen = "configure_raises"
           THEN [ai_report |-> Report(NoPrompt), messages |-> {"ai_error"},
                 invoked |-> FALSE, rerun |-> FALSE, shown |-> PyNone,
                 buttons |-> {"generate"}]
           ELSE IF gen = "generate_raises"
           THEN [ai_report |-> Report(NoPrompt), messages |-> {"ai_error"},
                 invoked |-> TRUE, rerun |-> FALSE, shown |-> PyNone,
                 buttons |-> {"generate"}]
           ELSE [ai_report |-> Report(summary), messages |-> {},
                 invoked |-> TRUE, rerun |-> TRUE, shown |-> PyNone,
                 buttons |-> {"generate"}]
      ELSE IF click = "regenerate"
           THEN [ai_report |-> PyNone, messages |-> {"cached_report"},
                 invoked |-> FALSE, rerun |-> TRUE, shown |-> ai0,
                 buttons |-> {"regenerate"}]
           ELSE [ai_report |-> ai0, messages |-> {"cached_report"},
                 invoked |-> FALSE, rerun |-> FALSE, shown |-> ai0,
                 buttons |-> {"regenerate"}]

\* the report section without the cache test of line 697: with a key
\* entered, every run that shows a report asks the service for a new one
ReportSectionRegenerates(ai_report, api_key, click, gen, summary) ==
  LET ai0 == IF ai_report = Absent THEN PyNone ELSE ai_report
  IN  IF IsNone(ai0)
      THEN IF click # "generate"
           THEN [ai_report |-> ai0, messages |-> {}, invoked |-> FALSE,
                 rerun |-> FALSE, shown |-> PyNone, buttons |-> {"generate"}]
           ELSE IF api_key = ""
           THEN [ai_report |-> ai0, messages |-> {"need_api_key"},
                 invoked |-> FALSE, rerun |-> FALSE, shown |-> PyNone,
                 buttons |-> {"generate"}]
           ELSE IF gen # "ok"
           THEN [ai_report |-> ai0, messages |-> {"ai_error"},
                 invoked |-> gen = "generate_raises", rerun |-> FALSE,
                 shown |-> PyNone, buttons |-> {"generate"}]
           ELSE [ai_report |-> Report(summary), messages |-> {},
                 invoked |-> TRUE, rerun |-> TRUE, shown |-> PyNone,
                 buttons |-> {"generate"}]
      ELSE IF click = "regenerate"
           THEN [ai_report |-> PyNone, messages |-> {"cached_report"},
                 invoked |-> FALSE, rerun |-> TRUE, shown |-> ai0,
                 buttons |-> {"regenerate"}]
           ELSE IF api_key # ""
           THEN [ai_report |-> Report(summary),
                 messages |-> {"cached_report"}, invoked |-> TRUE,
                 rerun |-> FALSE, shown |-> ai0, buttons |-> {"regenerate"}]
           ELSE [ai_report |-> ai0, messages |-> {"cached_report"},
                 invoked |-> FALSE, rerun |-> FALSE, shown |-> ai0,
                 buttons |-> {"regenerate"}]

ReportSection(ai_report, api_key, click, gen, summary) ==
  LET ai0 == IF ai_report = Absent THEN PyNone ELSE ai_report
  IN  IF IsNone(ai0)
      THEN IF click # "generate"
           THEN [ai_report |-> ai0, messages |-> {}, invoked |-> FALSE,
                 rerun |-> FALSE, shown |-> PyNone, buttons |-> {"generate"}]
           ELSE IF api_key = ""
           THEN [ai_report |-> ai0, messages |-> {"need_api_key"},
                 invoked |-> FALSE, rerun |-> FALSE, shown |-> PyNone,
                 buttons |-> {"generate"}]
           ELSE IF gen = "configure_raises"
           THEN [ai_report |-> ai0, messages |-> {"ai_error"},
                 invoked |-> FALSE, rerun |-> FALSE, shown |-> PyNone,
                 buttons |-> {"generate"}]
           ELSE IF gen = "generate_raises"
           THEN [ai_report |-> ai0, messages |-> {"ai_error"},
                 invoked |-> TRUE, rerun |-> FALSE, shown |-> PyNone,
                 buttons |-> {"generate"}]
           ELSE [ai_report |-> Report(summary), messages |-> {},
                 invoked |-> TRUE, rerun |-> TRUE, shown |-> PyNone,
                 buttons |-> {"generate"}]
      ELSE IF click = "regenerate"
           THEN [ai_report |-> PyNone, messages |-> {"cached_report"},
                 invoked |-> FALSE, rerun |-> TRUE, shown |-> ai0,
                 buttons |-> {"regenerate"}]
           ELSE [ai_report |-> ai0, messages |-> {"cached_report"},
                 invoked |-> FALSE, rerun |-> FALSE, shown |-> ai0,
                 buttons |-> {"regenerate"}]

(***************************************************************************)
(* One run of the script (lines 65-836).                                   *)
(*   stage "no_url"  : st.stop() at line 120                               *)
(*   stage "too_few" : st.error and st.stop() at lines 128-129             *)
(*   stage "error"   : an exception reached the handler at lines 834-836   *)
(*   stage "done"    : the run reached the end of the script               *)
(* st.stop() and st.rerun() raise control exceptions that are not          *)
(* subclasses of Exception, so the handler at line 834 does not see them.  *)
(* A keyed widget that a run does not render loses its session value.      *)
(***************************************************************************)
NoTable == [columns |-> {}, rows |-> <<>>]

NoCache == [cached |-> FALSE]

Range(f) == {f[k] : k \in DOMAIN f}

\* What a run leaves on the page and in its locals
Page(stage, df, weeks, res, kpi, alerts, messages, shown, buttons) ==
  [stage |-> stage, df |-> df, weeks |-> weeks,
   latest |-> res.latest, prev |-> res.prev,
   kpi |-> kpi, alerts |-> alerts, messages |-> messages,
   shown |-> shown, buttons |-> buttons, app_chart |-> <<>>]

Unresolved == [raised |-> FALSE, latest |-> NoRow, prev |-> NoRow]

\* selectbox (line 144): the session value if it is an option, else index 0
Selected(session, weeks) ==
  IF session.selected_week \in Range(weeks)
  THEN session.selected_week ELSE weeks[1]

Dropped(session) == [session EXCEPT !.selected_week = PyNone]

\* The value of the one-element set S: { F(v) : v \in {e} } computes e once
\* and hands its value to F.
Only(S) == CHOOSE r \in S : TRUE

Result(session, cache, invoked, sent_prompt, rerun, page_out) ==
  [session |-> session, cache |-> cache, invoked |-> invoked,
   sent |-> sent_prompt, rerun |-> rerun, page |-> page_out]

\* lines 650-832: the surge section and the report section
RunReport(api_key, session, kept, df_raw, df, weeks, res, kpi, alerts,
          click, gen) ==
  Only({ Only({ Result([kept EXCEPT !.ai_report = ai.ai_report], df_raw,
                       ai.invoked,
                       IF ai.invoked THEN summary ELSE NoPrompt, ai.rerun,
                       [Page("done", df, weeks, res, kpi, alerts,
                             ai.messages \cup
                               (IF res.prev = NoRow
                                THEN {"first_week"} ELSE {}),
                             ai.shown, ai.buttons)
                          EXCEPT !.app_chart = AppChart(df)])
                : ai \in {ReportSection(session.ai_report, api_key, click,
                                        gen, summary)} })
         : summary \in {DataSummary(df, res.latest, res.prev, alerts)} })

\* lines 155-640: resolution, the KPI section, the chart sections
RunResolved(api_key, session, kept, df_raw, df, weeks, res, click, gen) ==
  Only({ IF ChartsRaise(df)
         THEN Result(kept, df_raw, FALSE, NoPrompt, FALSE,
                     [Page("error", df, weeks, res, kpi, <<>>,
                           {"system_error"}, PyNone, {})
                        EXCEPT !.app_chart = AppChart(df)])
         ELSE Only({ RunReport(api_key, session, kept, df_raw, df, weeks,
                               res, kpi, alerts, click, gen)
                     : alerts \in {SurgeSection(df, res.latest, res.prev)} })
         : kpi \in {KpiSection(df, res.latest, res.prev)} })

\* the guard at line 127 with the bound off by one
TooFewOffByOne(df) == RowCount(df) < 1

\* len(df) < 2 (line 127)
TooFew(df) == RowCount(df) < 2

\* lines 127-163: the row-count guard, the week selectbox
RunLoaded(api_key, session, df_raw, df, click, gen) ==
  IF TooFew(df)
  THEN Result(Dropped(session), df_raw, FALSE, NoPrompt, FALSE,
              Page("too_few", df, <<>>, Unresolved, <<>>, <<>>,
                   {"too_few_rows"}, PyNone, {}))
  ELSE IF "week" \notin df.columns
  THEN \* df["week"] raises KeyError (line 143)
       Result(Dropped(session), df_raw, FALSE, NoPrompt, FALSE,
              Page("error", df, <<>>, Unresolved, <<>>, <<>>,
                   {"system_error"}, PyNone, {}))
  ELSE Only({ Only({ Only({ RunResolved(api_key, session,
                                 [session EXCEPT !.selected_week = sel],
                                 df_raw, df, weeks, res, click, gen)
                            : res \in {Resolve(df, sel)} })
                     : sel \in {Selected(session, weeks)} })
              : weeks \in {WeekOptions(df)} })

RunScript(csv_url, api_key, session, cache, sheet, fetch_ok, click, gen) ==
  IF csv_url = ""
  THEN Result(Dropped(session), cache, FALSE, NoPrompt, FALSE,
              Page("no_url", NoTable, <<>>, Unresolved, <<>>, <<>>,
                   {"need_url"}, PyNone, {}))
  ELSE IF cache = NoCache /\ ~fetch_ok
  THEN \* load_data raises (line 124)
       Result(Dropped(session), cache, FALSE, NoPrompt, FALSE,
              Page("error", NoTable, <<>>, Unresolved, <<>>, <<>>,
                   {"system_error"}, PyNone, {}))
  ELSE Only({ Only({ RunLoaded(api_key, session, df_raw, df, click, gen)
                     : df \in {preprocess_data(df_raw)} })
              : df_raw \in {IF cache = NoCache THEN sheet ELSE cache} })

(***************************************************************************)
(* The sheets a session may be pointed at                                  *)
(***************************************************************************)
MaxRows == 3
MaxLongRows == 9

AllColumns ==
  {"week", "bc_PV", "news_PV", "bc_UV", "bc_AOS_dl", "bc_iOS_dl", "news_UV",
   "total_mem", "conv_mem", "new_mem", "churn_mem"}

RawRow(week, bc_PV, news_PV, bc_UV, aos, ios, news_UV, total, conv, new,
       churn) ==
  [col \in AllColumns |->
     CASE col = "week" -> week
       [] col = "bc_PV" -> bc_PV
       [] col = "news_PV" -> news_PV
       [] col = "bc_UV" -> bc_UV
       [] col = "bc_AOS_dl" -> aos
       [] col = "bc_iOS_dl" -> ios
       [] col = "news_UV" -> news_UV
       [] col = "total_mem" -> total
       [] col = "conv_mem" -> conv
       [] col = "new_mem" -> new
       [] col = "churn_mem" -> churn]

Percent(n) == NatText(n) \o <<"%">>

RowKinds ==
  { RawRow(<<"W", "1">>, NatText(100), GroupText(1000), Percent(50),
           NatText(60), NatText(40), NatText(100), GroupText(1000),
           NatText(100), NatText(100), NatText(100)),
    RawRow(<<"W", "2">>, NatText(110), GroupText(1100), Percent(55),
           NatText(70), NatText(45), NatText(120), GroupText(1010),
           NatText(105), NatText(120), NatText(80)),
    RawRow(<<"W", "3">>, NatText(109), GroupText(1099), Percent(54),
           NatText(70), NatText(44), NatText(95), GroupText(1020),
           NatText(104), NatText(119), NatText(81)),
    RawRow(<<" ", "W", "1">>, <<"-">>, NatText(0), <<"n", "a", "n">>,
           <<"-">>, NatText(0), <<>>, GroupText(1000),
           NatText(0), <<"-", "5">>, NatText(50)) }

ColumnSets ==
  { AllColumns,
    AllColumns \ {"new_mem", "news_UV"},
    AllColumns \ {"bc_AOS_dl"},
    AllColumns \ {"bc_AOS_dl", "bc_iOS_dl"},
    AllColumns \ {"week"} }

RECURSIVE SeqsUpTo(_, _)
SeqsUpTo(S, n) ==
  IF n = 0 THEN {<<>>}
  ELSE LET shorter == SeqsUpTo(S, n - 1)
       IN  shorter \cup {Append(q, e) : q \in shorter, e \in S}

Restrict(row, cols) == [col \in cols |-> row[col]]

ShortSheets ==
  {[columns |-> cols, rows |-> [k \in 1..Len(q) |-> Restrict(q[k], cols)]] :
     cols \in ColumnSets, q \in SeqsUpTo(RowKinds, MaxRows)}

\* week i of a sheet that grows by one row a week, all rows different
WeeklyRow(i) ==
  RawRow(<<"W">> \o NatText(10 + i), NatText(100 + 10 * i),
         GroupText(1000 + 50 * i), NatText(50 + i), NatText(60 + i),
         NatText(40 + 2 * i), NatText(100 + i), GroupText(1000 + 10 * i),
         NatText(100 + 4 * i), NatText(100 + i), NatText(100))

LongSheets ==
  {[columns |-> AllColumns, rows |-> [k \in 1..n |-> WeeklyRow(k)]] :
     n \in tail_n..MaxLongRows}

Sheets == ShortSheets \cup LongSheets

URL == "url"
KEY == "key"

(***************************************************************************)
(* State                                                                   *)
(***************************************************************************)
VARIABLES
  csv_url,   \* the sidebar's CSV URL input (line 75)
  api_key,   \* the sidebar's API key input (line 93)
  sheet,     \* the table behind the URL
  cache,     \* st.cache_data of load_data (lines 11-13): NoCache or a table
  session,   \* st.session_state: selected_week (line 144), ai_report (694)
  page,      \* what the last run rendered and computed
  collab,    \* the last step's use of generate_content (line 821): whether
             \* it was called, and the prompt it was handed
  call       \* the last direct application of a helper function

vars == <<csv_url, api_key, sheet, cache, session, page, collab, call>>

NoCollab == [invoked |-> FALSE, sent |-> NoPrompt]

NoCall == [fn |-> "none"]

Init ==
  /\ csv_url = ""
  /\ api_key = ""
  /\ sheet \in Sheets
  /\ cache = NoCache
  /\ \E r \in {RunScript("", "", [selected_week |-> PyNone,
                                  ai_report |-> Absent],
                         NoCache, sheet, TRUE, "none", "ok")} :
       /\ session = r.session
       /\ page = r.page
  /\ collab = NoCollab
  /\ call = NoCall

\* A user interaction and the run it triggers, with the rerun that
\* st.rerun() asks for (lines 823, 832); the rerun finds the table cached.
Interact(url, key, sess, click, gens) ==
  \E fetch_ok \in (IF cache = NoCache /\ url # "" THEN BOOLEAN ELSE {TRUE}),
     gen \in gens :
    \E r1 \in {RunScript(url, key, sess, cache, sheet, fetch_ok, click, gen)} :
      \E r2 \in {IF r1.rerun
                 THEN RunScript(url, key, r1.session, r1.cache, sheet, TRUE,
                                "none", "ok")
                 ELSE r1} :
        /\ csv_url' = url
        /\ api_key' = key
        /\ session' = r2.session
        /\ cache' = r2.cache
        /\ page' = r2.page
        /\ collab' = [invoked |-> r1.invoked, sent |-> r1.sent]
        /\ UNCHANGED <<sheet, call>>

SetUrl ==
  \E url \in {"", URL} :
    /\ url # csv_url
    /\ Interact(url, api_key, session, "none", {"ok"})

SetApiKey ==
  \E key \in {"", KEY} :
    /\ key # api_key
    /\ Interact(csv_url, key, session, "none", {"ok"})

SelectWeek ==
  \E w \in Range(page.weeks) :
    /\ w # session.selected_week
    /\ Interact(csv_url, api_key,
                [session EXCEPT !.selected_week = w], "none", {"ok"})

ClickGenerate ==
  /\ "generate" \in page.buttons
  /\ Interact(csv_url, api_key, session, "generate", GenOutcomes)

ClickRegenerate ==
  /\ "regenerate" \in page.buttons
  /\ Interact(csv_url, api_key, session, "regenerate", {"ok"})

\* any other widget change (the range radios, lines 306 and 548)
Rerun ==
  Interact(csv_url, api_key, session, "none", {"ok"})

\* the 300 s time-to-live of the cached table passes (line 11)
CacheExpire ==
  /\ cache # NoCache
  /\ cache' = NoCache
  /\ collab' = NoCollab
  /\ UNCHANGED <<csv_url, api_key, sheet, session, page, call>>

Next ==
  \/ SetUrl
  \/ SetApiKey
  \/ SelectWeek
  \/ ClickGenerate
  \/ ClickRegenerate
  \/ Rerun
  \/ CacheExpire

Spec == Init /\ [][Next]_vars

(***************************************************************************)
(* The helper functions applied directly to drawn inputs                   *)
(***************************************************************************)
MaxMag == 21

NumberValues == {Num(n) : n \in (0 - MaxMag)..MaxMag}

ZeroValues == {Num(0), Str(<<"0">>)}

\* texts float() rejects
NonNumericValues ==
  {Str(<<"a", "b", "c">>), Str(<<>>), Str(<<"-">>),
   Str(<<"1", ",", "0", "0", "0">>)}

\* texts float() accepts
NumericTextValues == {Str(<<"0">>), Str(<<" ", "1", "2", " ">>), Str(<<"1", "0">>)}

\* the operands of the documented example and of a change below a tenth
ExampleValues == {Num(100), Num(120), Num(2001), Num(2002)}

PyValues ==
  {PyNone} \cup NumberValues \cup NonNumericValues \cup NumericTextValues
    \cup ExampleValues

Thresholds == {5, 10, 15, 20}

WeekChoices ==
  {Str(<<"W", "1">>), Str(<<"W", "2">>), Str(<<"W", "3">>),
   Str(<<"W", "4">>), Str(<<" ", "W", "1">>)}

\* raw cells of a numeric column: every text of up to MaxCellLen characters
\* over digits, the separators the script removes, a sign and letters
MaxCellLen == 4

CellAlphabet == {"0", "1", ",", "%", "-", "n", "a"}

CellInputs ==
  {[fn |-> "input", kind |-> "cell", cell |-> c] :
     c \in SeqsUpTo(CellAlphabet, MaxCellLen)}

DeltaInputs ==
  {[fn |-> "input", kind |-> "delta", curr |-> c, prev |-> p] :
     c \in PyValues, p \in PyValues}

ResolveInputs ==
  {[fn |-> "input", kind |-> "resolve",
    df |-> preprocess_data([columns |-> AllColumns, rows |-> q]),
    week |-> w] :
     q \in SeqsUpTo(RowKinds, MaxRows), w \in WeekChoices}

InitFn ==
  /\ csv_url = ""
  /\ api_key = ""
  /\ sheet = [columns |-> AllColumns, rows |-> <<>>]
  /\ cache = NoCache
  /\ session = [selected_week |-> PyNone, ai_report |-> Absent]
  /\ page = Page("no_url", NoTable, <<>>, Unresolved, <<>>, <<>>,
                 {"need_url"}, PyNone, {})
  /\ collab = NoCollab
  /\ call \in DeltaInputs \cup ResolveInputs \cup CellInputs

Program == <<csv_url, api_key, sheet, cache, session, page, collab>>

ApplyFmtDelta ==
  /\ call.fn = "input" /\ call.kind = "delta"
  /\ call' = [fn |-> "fmt_delta", curr |-> call.curr, prev |-> call.prev,
              result |-> fmt_delta(call.curr, call.prev)]
  /\ UNCHANGED Program

ApplyFmtAbsDelta ==
  /\ call.fn = "input" /\ call.kind = "delta"
  /\ call' = [fn |-> "fmt_abs_delta", curr |-> call.curr, prev |-> call.prev,
              result |-> fmt_abs_delta(call.curr, call.prev)]
  /\ UNCHANGED Program

ApplyCheckSurge ==
  /\ call.fn = "input" /\ call.kind = "delta"
  /\ \E threshold \in Thresholds,
        alerts \in {<<>>, <<AlertLine("earlier", 12, 10)>>} :
       call' = [fn |-> "check_surge", curr |-> call.curr, prev |-> call.prev,
                threshold |-> threshold, alerts |-> alerts,
                result |-> check_surge(alerts, "metric", call.curr, call.prev,
                                       threshold)]
  /\ UNCHANGED Program

ApplyResolve ==
  /\ call.fn = "input" /\ call.kind = "resolve"
  /\ call' = [fn |-> "Resolve", df |-> call.df, week |-> call.week,
              result |-> Resolve(call.df, call.week)]
  /\ UNCHANGED Program

ApplyNumericCell ==
  /\ call.fn = "input" /\ call.kind = "cell"
  /\ call' = [fn |-> "NumericCell", cell |-> call.cell,
              result |-> NumericCell(call.cell)]
  /\ UNCHANGED Program

NextFn ==
  \/ ApplyFmtDelta
  \/ ApplyFmtAbsDelta
  \/ ApplyCheckSurge
  \/ ApplyResolve
  \/ ApplyNumericCell

SpecFn == InitFn /\ [][NextFn]_vars

(***************************************************************************)
(* Week resolution                                                         *)
(***************************************************************************)
Matches(df, week) == \E i \in Positions(df) : WeekAt(df, i) = week

LastWeek(df) == WeekAt(df, RowCount(df) - 1)

\* C1: for a table of at least 2 rows and a selected week that matches a row,
\* resolution gives previous_row = None exactly when the resolved current row
\* is at position 0.
C1_PrevNoneIffFirstRow ==
  (call.fn = "Resolve" /\ RowCount(call.df) >= 2
     /\ Matches(call.df, call.week))
  => /\ ~call.result.raised
     /\ call.result.latest \in Positions(call.df)
     /\ (call.result.prev = NoRow) <=> (call.result.latest = 0)

C1_Witness ==
  /\ call.fn = "Resolve" /\ RowCount(call.df) >= 2
  /\ Matches(call.df, call.week)
  /\ call.result.latest = 0 /\ call.result.prev = NoRow

\* a later row resolved: its previous row is present
C1_WitnessLater ==
  /\ call.fn = "Resolve" /\ RowCount(call.df) >= 2
  /\ Matches(call.df, call.week)
  /\ call.result.latest > 0 /\ call.result.prev # NoRow

SamePairAsLastWeek ==
  LET last == Resolve(call.df, LastWeek(call.df))
  IN  /\ call.result.latest = last.latest
      /\ call.result.prev = last.prev
      /\ KpiSection(call.df, call.result.latest, call.result.prev)
           = KpiSection(call.df, last.latest, last.prev)
      /\ SurgeSection(call.df, call.result.latest, call.result.prev)
           = SurgeSection(call.df, last.latest, last.prev)

\* C2 as stated: for every table of at least 2 rows, duplicate or
\* out-of-order week labels included, resolving a week that is not in the
\* table gives the same row pair, KPI deltas and alerts as resolving the week
\* label of the last row.
C2_AsStated ==
  (call.fn = "Resolve" /\ RowCount(call.df) >= 2
     /\ ~Matches(call.df, call.week))
  => SamePairAsLastWeek

LastWeekIsFirstOccurrence(df) ==
  \A i \in Positions(df) :
    WeekAt(df, i) = LastWeek(df) => i = RowCount(df) - 1

\* C2 amended: for every table of at least 2 rows whose last row's week label
\* occurs in no earlier row (out-of-order labels included), resolving a week
\* that is not in the table gives the last two rows, the same row pair, KPI
\* deltas and alerts as resolving the week label of the last row.
C2_FallbackEqualsLastWeek ==
  (call.fn = "Resolve" /\ RowCount(call.df) >= 2
     /\ ~Matches(call.df, call.week)
     /\ LastWeekIsFirstOccurrence(call.df))
  => /\ call.result.latest = RowCount(call.df) - 1
     /\ call.result.prev = RowCount(call.df) - 2
     /\ SamePairAsLastWeek

C2_Witness ==
  /\ call.fn = "Resolve" /\ RowCount(call.df) >= 2
  /\ ~Matches(call.df, call.week)
  /\ LastWeekIsFirstOccurrence(call.df)
  /\ call.result.latest = RowCount(call.df) - 1
  /\ WeekAt(call.df, 0) = Str(<<"W", "2">>)
  /\ LastWeek(call.df) = Str(<<"W", "1">>)

(***************************************************************************)
(* Deltas                                                                  *)
(***************************************************************************)
\* C3: fmt_delta returns "N/A" for every prev that is None, zero or
\* non-numeric, whatever curr is, and returns "N/A" when curr does not parse
\* as a number.
C3_FmtDeltaNA ==
  call.fn = "fmt_delta"
  => /\ call.prev \in ({PyNone} \cup ZeroValues \cup NonNumericValues)
          => call.result = NA
     /\ call.curr \in ({PyNone} \cup NonNumericValues)
          => call.result = NA

C3_Witness ==
  /\ call.fn = "fmt_delta"
  /\ call.prev \in NumberValues \ ZeroValues
  /\ call.curr \in NonNumericValues
  /\ call.result = NA

C3_WitnessZero ==
  /\ call.fn = "fmt_delta"
  /\ call.prev \in ZeroValues
  /\ call.curr = Num(5)
  /\ call.result = NA

\* C4 as stated: fmt_abs_delta returns "N/A" whenever prev is None,
\* non-numeric or zero; abs_delta(curr, 0) is "N/A" for every numeric curr.
C4_AsStated ==
  (call.fn = "fmt_abs_delta"
     /\ call.prev \in ({PyNone} \cup ZeroValues \cup NonNumericValues))
  => call.result = NA

\* C4 amended: fmt_abs_delta returns "N/A" whenever prev is None or
\* non-numeric, or curr does not parse; for a zero prev and a numeric curr it
\* returns curr - 0 with a forced sign and thousands separators, not "N/A".
C4_FmtAbsDeltaNA ==
  call.fn = "fmt_abs_delta"
  => /\ call.prev \in ({PyNone} \cup NonNumericValues) => call.result = NA
     /\ (~IsNone(call.prev) /\ call.curr \in ({PyNone} \cup NonNumericValues))
          => call.result = NA
     /\ (call.prev \in ZeroValues /\ call.curr \in NumberValues)
          => /\ call.result # NA
             /\ call.result =
                  (IF call.curr.v < 0 THEN <<"-">> ELSE <<"+">>)
                    \o NatText(Abs(call.curr.v))

C4_Witness ==
  /\ call.fn = "fmt_abs_delta"
  /\ call.prev \in ZeroValues
  /\ call.curr = Num(MaxMag)
  /\ call.result # NA

C4_WitnessNone ==
  /\ call.fn = "fmt_abs_delta"
  /\ IsNone(call.prev)
  /\ call.curr = Num(MaxMag)
  /\ call.result = NA

(***************************************************************************)
(* Surge detection                                                         *)
(***************************************************************************)
\* C5: check_surge adds no alert when prev is None, unparseable or zero; for
\* a numeric curr and a non-zero numeric prev it adds exactly one alert if
\* and only if |(curr - prev) / prev| >= threshold, the boundary included.
C5_SurgeIffThreshold ==
  call.fn = "check_surge"
  => /\ call.prev \in ({PyNone} \cup ZeroValues \cup NonNumericValues)
          => call.result = call.alerts
     /\ (call.curr \in NumberValues /\ call.prev \in NumberValues
           /\ call.prev.v # 0)
          => IF 100 * Abs(call.curr.v - call.prev.v)
                  >= call.threshold * Abs(call.prev.v)
             THEN /\ Len(call.result) = Len(call.alerts) + 1
                  /\ SubSeq(call.result, 1, Len(call.alerts)) = call.alerts
                  /\ call.result[Len(call.result)].label = "metric"
             ELSE call.result = call.alerts

\* a change exactly equal to the threshold triggers
C5_Witness ==
  /\ call.fn = "check_surge"
  /\ call.curr = Num(11) /\ call.prev = Num(10) /\ call.threshold = 10
  /\ Len(call.result) = Len(call.alerts) + 1

C5_WitnessSkip ==
  /\ call.fn = "check_surge"
  /\ call.curr = Num(11) /\ call.prev \in ZeroValues
  /\ call.result = call.alerts
(***************************************************************************)
(* The computation cycle                                                   *)
(***************************************************************************)
\* the KPI labels of the tracked metrics and the alert label of each
Tracked ==
  {<<"broadcast PV", "broadcast PV">>, <<"news PV", "news PV">>,
   <<"app downloads", "broadcast app downloads">>,
   <<"broadcast app downloads", "broadcast app downloads">>,
   <<"new members", "new members">>,
   <<"churned members", "churned members">>,
   <<"converted members", "converted members">>}

KpiDeltaIsNA(label) ==
  \E k \in 1..Len(page.kpi) :
    page.kpi[k].label = label /\ page.kpi[k].delta = NA

HasAlert(label) ==
  \E k \in 1..Len(page.alerts) : page.alerts[k].label = label

\* C6: in a cycle, a tracked metric whose KPI percent delta is "N/A" (no
\* previous row, a zero previous value, or the column absent) has no alert;
\* when the selected row is the first row there is no alert at all and every
\* KPI delta is "N/A".
C6_NoAlertWhereDeltaNA ==
  page.kpi # <<>>
  => /\ \A m \in Tracked : KpiDeltaIsNA(m[1]) => ~HasAlert(m[2])
     /\ page.latest = 0
          => /\ page.alerts = <<>>
             /\ \A k \in 1..Len(page.kpi) : page.kpi[k].delta = NA

\* a zero previous value and an absent column, beside a metric that alerts
C6_Witness ==
  /\ page.stage = "done" /\ page.prev # NoRow
  /\ "new_mem" \notin page.df.columns
  /\ KpiDeltaIsNA("new members")
  /\ Get(page.df, page.prev, "conv_mem", Num(1)) = Num(0)
  /\ KpiDeltaIsNA("converted members")
  /\ HasAlert("churned members")

\* C7: the evidence summary's trailing window is the last min(8, table
\* length) rows of the table, oldest first, one snapshot per row.
C7_TailWindow ==
  collab.invoked
  => LET n    == RowCount(page.df)
         w    == IF n < 8 THEN n ELSE 8
         rows == collab.sent.tail_rows
     IN  /\ Len(rows) = w
         /\ \A k \in 1..w :
              /\ rows[k] = Snapshot(page.df, n - w + k - 1)
              /\ rows[k].week = WeekAt(page.df, n - w + k - 1).s

\* a table of 9 rows: the window starts at the second row
C7_Witness ==
  /\ collab.invoked
  /\ RowCount(page.df) = tail_n + 1
  /\ Len(collab.sent.tail_rows) = tail_n
  /\ collab.sent.tail_rows[1].week = <<"W", "1", "2">>
  /\ collab.sent.week = <<"W", "1", "1">>

NoOutput ==
  /\ page.weeks = <<>>
  /\ page.latest = NoRow /\ page.prev = NoRow
  /\ page.kpi = <<>> /\ page.alerts = <<>>
  /\ ~collab.invoked /\ collab.sent = NoPrompt
  /\ page.shown = PyNone /\ page.buttons = {}

\* C8: with a table of fewer than 2 rows the cycle ends with an error message
\* and no partial output (no resolution, KPI, alert or summary); every cycle
\* that reaches week resolution has a table of at least 2 rows.
C8_TooFewRowsNoOutput ==
  /\ (csv_url # "" /\ Len(sheet.rows) < 2)
       => /\ page.messages \in {{"too_few_rows"}, {"system_error"}}
          /\ page.stage = (IF page.messages = {"too_few_rows"}
                           THEN "too_few" ELSE "error")
          /\ NoOutput
  /\ page.stage = "too_few"
       => /\ RowCount(page.df) < 2
          /\ page.messages = {"too_few_rows"}
          /\ NoOutput
  /\ page.latest # NoRow
       => RowCount(page.df) >= 2 /\ Len(sheet.rows) >= 2

C8_Witness ==
  /\ page.stage = "too_few"
  /\ RowCount(page.df) = 1
  /\ page.messages = {"too_few_rows"}
  /\ session.ai_report = Absent

NarrativeFailed == page.messages \cap {"need_api_key", "ai_error"} # {}

\* C9: a failure of the narrative service (no API key, an exception while
\* configuring or generating) disables the narrative only: the cycle's KPI
\* values, KPI deltas and alerts are those of a cycle that does not call the
\* service and of one in which it succeeds, and the cached report stays
\* not generated.
C9_NarrativeFailureIsLocal ==
  NarrativeFailed
  => /\ page.stage = "done"
     /\ session.ai_report = PyNone
     /\ page.kpi # <<>>
     /\ \A plain \in {RunScript(csv_url, api_key, session, cache, sheet,
                                TRUE, "none", "ok")} :
          /\ plain.page.kpi = page.kpi
          /\ plain.page.alerts = page.alerts
          /\ plain.page.latest = page.latest
          /\ plain.page.prev = page.prev
     /\ \A good \in {RunScript(csv_url, KEY, session, cache, sheet,
                               TRUE, "generate", "ok")} :
          /\ good.invoked
          /\ good.page.kpi = page.kpi
          /\ good.page.alerts = page.alerts
          /\ good.sent.alerts = page.alerts

\* the service raised after the prompt was built, in a cycle with alerts
C9_Witness ==
  /\ "ai_error" \in page.messages
  /\ collab.invoked
  /\ page.alerts # <<>>
  /\ session.ai_report = PyNone

IsReport(x) == x.t = "report"

C11_ReportIsForSelectedWeek ==
  IsReport(page.shown)
  => /\ session.selected_week = Str(page.shown.from.week)
     /\ page.shown = Report(DataSummary(page.df, page.latest, page.prev,
                                        page.alerts))

(***************************************************************************)
(* Exact match and the previous position                                   *)
(***************************************************************************)
\* C12: for every table, duplicate or out-of-order week labels included, and
\* every selected week equal to some row's week label by exact string
\* equality, the resolved current row carries the selected label and the
\* resolved previous row is the row at the position just before it in table
\* order (none before position 0).
C12_ExactMatchPreviousPosition ==
  (call.fn = "Resolve" /\ Matches(call.df, call.week))
  => /\ ~call.result.raised
     /\ call.result.latest \in Positions(call.df)
     /\ WeekAt(call.df, call.result.latest) = call.week
     /\ call.result.prev = (IF call.result.latest = 0 THEN NoRow
                            ELSE call.result.latest - 1)

\* labels W2, W1, W1: out of order and duplicated; W1 resolves to the middle
\* row, its previous row is the W2 row before it
C12_Witness ==
  /\ call.fn = "Resolve" /\ RowCount(call.df) = 3
  /\ WeekAt(call.df, 0) = Str(<<"W", "2">>)
  /\ WeekAt(call.df, 1) = Str(<<"W", "1">>)
  /\ WeekAt(call.df, 2) = Str(<<"W", "1">>)
  /\ call.week = Str(<<"W", "1">>)
  /\ call.result.latest = 1 /\ call.result.prev = 0

\* a selection that differs from every label only by a leading blank is no
\* match: the fallback rows are used
C12_WitnessNoTrim ==
  /\ call.fn = "Resolve" /\ RowCount(call.df) = 2
  /\ call.week = Str(<<" ", "W", "1">>)
  /\ WeekAt(call.df, 0) = Str(<<"W", "1">>)
  /\ ~Matches(call.df, call.week)
  /\ call.result.latest = 1

(***************************************************************************)
(* Normalisation of a numeric cell                                         *)
(***************************************************************************)
\* the characters of s that are not in drop, in order
RECURSIVE Without(_, _)
Without(s, drop) ==
  IF s = <<>> THEN <<>>
  ELSE IF s[1] \in drop THEN Without(Tail(s), drop)
  ELSE <<s[1]>> \o Without(Tail(s), drop)

\* an optionally negative whole number read digit by digit from the left;
\* ok is FALSE where the text is not one
RECURSIVE ReadDigits(_, _)
ReadDigits(s, acc) ==
  IF s = <<>> THEN [ok |-> TRUE, v |-> acc]
  ELSE IF s[1] \in Digits THEN ReadDigits(Tail(s), acc * 10 + DigitVal(s[1]))
  ELSE [ok |-> FALSE, v |-> 0]

ReadWhole(s) ==
  IF s = <<>> \/ s = <<"-">> THEN [ok |-> FALSE, v |-> 0]
  ELSE IF s[1] = "-"
  THEN LET r == ReadDigits(Tail(s), 0) IN [ok |-> r.ok, v |-> 0 - r.v]
  ELSE ReadDigits(s, 0)

\* C13: every cell of a numeric column normalises to a number: the value of
\* the cell with its commas and percent signs removed when that remainder
\* parses as a number, 0 when it does not parse or the cell is empty;
\* normalisation fails on no cell.
C13_NumericNormalisation ==
  call.fn = "NumericCell"
  => LET rest == ReadWhole(Without(call.cell, {",", "%"}))
     IN  /\ call.result.t = "num"
         /\ rest.ok => call.result.v = rest.v
         /\ ~rest.ok => call.result.v = 0
         /\ call.cell = <<>> => call.result = Num(0)
         /\ \A n \in 0..11 :
              /\ call.cell = Percent(n) => call.result = Num(n)
              /\ call.cell = <<"-">> \o NatText(n) => call.result = Num(0 - n)
         /\ \A a \in {0, 1}, b \in {0, 1} :
              call.cell = <<DigitChar(a), ",", DigitChar(b), "%">>
              => call.result = Num(10 * a + b)

\* "1,0%" normalises to 10
C13_Witness ==
  /\ call.fn = "NumericCell"
  /\ call.cell = <<"1", ",", "0", "%">>
  /\ call.result = Num(10)

\* "-" and "nan" normalise to 0
C13_WitnessUnparseable ==
  /\ call.fn = "NumericCell"
  /\ call.cell \in {<<"-">>, <<"n", "a", "n">>}
  /\ call.result = Num(0)

(***************************************************************************)
(* The value of fmt_delta                                                  *)
(***************************************************************************)
\* the text of a number of tenths with a sign character
TenthsText(sign, t) ==
  <<sign>> \o NatText(t \div 10) \o <<".", DigitChar(t % 10), "%">>

\* C14: for every numeric curr and every non-zero numeric prev, fmt_delta
\* returns (curr - prev) / prev * 100 rounded to the nearest tenth, with an
\* explicit sign ("+" for a rise, "-" for a fall) and a percent suffix.
C14_FmtDeltaValue ==
  (call.fn = "fmt_delta" /\ FloatOf(call.curr).ok /\ FloatOf(call.prev).ok
     /\ FloatOf(call.prev).v # 0)
  => LET c  == FloatOf(call.curr).v
         p  == FloatOf(call.prev).v
         d  == c - p
         fl == (1000 * Abs(d)) \div Abs(p)
     IN  \E t \in {fl, fl + 1}, sign \in {"+", "-"} :
           /\ 2 * Abs(1000 * Abs(d) - t * Abs(p)) <= Abs(p)
           /\ d * p > 0 => sign = "+"
           /\ d * p < 0 => sign = "-"
           /\ call.result = TenthsText(sign, t)

\* the documented example: prev 100, curr 120 gives "+20.0%"
C14_Witness ==
  /\ call.fn = "fmt_delta"
  /\ call.curr = Num(120) /\ call.prev = Num(100)
  /\ call.result = <<"+", "2", "0", ".", "0", "%">>

\* a fall that rounds up in magnitude: prev 21, curr 20 gives "-4.8%"
C14_WitnessFall ==
  /\ call.fn = "fmt_delta"
  /\ call.curr = Num(20) /\ call.prev = Num(21)
  /\ call.result = <<"-", "4", ".", "8", "%">>

(***************************************************************************)
(* The composite app-download metric                                       *)
(***************************************************************************)
AppSources == {"bc_AOS_dl", "bc_iOS_dl"}

\* the sum of the source columns a row has
RECURSIVE SumOver(_, _, _)
SumOver(df, i, cols) ==
  IF cols = {} THEN 0
  ELSE LET col == CHOOSE c \in cols : TRUE
       IN  RowAt(df, i)[col].v + SumOver(df, i, cols \ {col})

SourceSum(df, i) == SumOver(df, i, AppSources \cap df.columns)

KpiOf(label) ==
  page.kpi[CHOOSE k \in 1..Len(page.kpi) : page.kpi[k].label = label]

\* C15: the composite app-download metric of a row is the sum of the two
\* OS-specific download columns, an absent column contributing 0 (both
\* absent gives 0, not unavailable); the previous-week composite is None
\* if and only if the previous row is absent.
C15_CompositeAppDownloads ==
  page.kpi # <<>>
  => /\ AppDownloads(page.df, page.latest)
          = Num(SourceSum(page.df, page.latest))
     /\ \A label \in {"app downloads", "broadcast app downloads"} :
          /\ KpiOf(label).value
               = FormatInt0(SourceSum(page.df, page.latest), FALSE)
          /\ page.prev = NoRow => KpiOf(label).delta = NA
          /\ (page.prev # NoRow /\ SourceSum(page.df, page.prev) # 0)
               => KpiOf(label).delta # NA
     /\ (PrevAppDownloads(page.df, page.prev) = PyNone)
          <=> (page.prev = NoRow)
     /\ page.prev # NoRow
          => PrevAppDownloads(page.df, page.prev)
               = Num(SourceSum(page.df, page.prev))

\* one source column absent: the composite is the other column's value
C15_Witness ==
  /\ page.kpi # <<>> /\ page.prev # NoRow
  /\ AppSources \cap page.df.columns = {"bc_iOS_dl"}
  /\ KpiOf("app downloads").value = <<"4", "5">>
  /\ KpiOf("app downloads").delta = <<"+", "1", "2", ".", "5", "%">>

\* both source columns absent: the composite is 0 and the previous
\* composite is 0, not None, when there is a previous row
C15_WitnessBothAbsent ==
  /\ page.kpi # <<>> /\ page.prev # NoRow
  /\ AppSources \cap page.df.columns = {}
  /\ KpiOf("app downloads").value = <<"0">>
  /\ PrevAppDownloads(page.df, page.prev) = Num(0)

(***************************************************************************)
(* The alert list                                                          *)
(***************************************************************************)
\* the tracked metrics in the order of the claim: alert label, source
\* columns, threshold in hundredths
TrackedMetrics ==
  << [label |-> "broadcast PV", cols |-> {"bc_PV"}, pct |-> 10],
     [label |-> "news PV", cols |-> {"news_PV"}, pct |-> 10],
     [label |-> "broadcast app downloads", cols |-> AppSources, pct |-> 15],
     [label |-> "new members", cols |-> {"new_mem"}, pct |-> 20],
     [label |-> "churned members", cols |-> {"churn_mem"}, pct |-> 20],
     [label |-> "converted members", cols |-> {"conv_mem"}, pct |-> 5] >>

ValueAt(i, m) == SumOver(page.df, i, m.cols \cap page.df.columns)

\* the previous value is usable: there is a previous row, the metric has a
\* source column, and the previous value is not zero
PrevUsable(m) ==
  /\ page.prev # NoRow
  /\ m.cols \cap page.df.columns # {}
  /\ ValueAt(page.prev, m) # 0

MeetsThreshold(m) ==
  100 * Abs(ValueAt(page.latest, m) - ValueAt(page.prev, m))
    >= m.pct * Abs(ValueAt(page.prev, m))

\* C16: in every cycle that reaches the surge section, the alert list has
\* at most one alert per tracked metric, in the order broadcast PV, news PV,
\* app downloads, new members, churned members, converted members, and a
\* metric's alert is present iff its previous value is usable and its
\* fractional change meets the metric's own threshold (10%, 10%, 15%, 20%,
\* 20%, 5%).
C16_AlertsPerMetricThreshold ==
  page.stage = "done"
  => /\ \E pos \in [1..Len(page.alerts) -> 1..Len(TrackedMetrics)] :
          /\ \A k \in 1..Len(page.alerts) :
               page.alerts[k].label = TrackedMetrics[pos[k]].label
          /\ \A j, k \in 1..Len(page.alerts) : j < k => pos[j] < pos[k]
     /\ \A n \in 1..Len(TrackedMetrics) :
          HasAlert(TrackedMetrics[n].label)
            <=> (PrevUsable(TrackedMetrics[n])
                   /\ MeetsThreshold(TrackedMetrics[n]))

\* every metric exactly at its threshold: six alerts in the fixed order
C16_Witness ==
  /\ page.stage = "done"
  /\ Len(page.alerts) = Len(TrackedMetrics)
  /\ \A k \in 1..Len(TrackedMetrics) :
       page.alerts[k].label = TrackedMetrics[k].label
  /\ page.alerts[3].pct = <<"1", "5", ".", "0", "%">>
  /\ page.alerts[6].pct = <<"5", ".", "0", "%">>

\* every metric just below its threshold: no alert
C16_WitnessBelow ==
  /\ page.stage = "done" /\ page.prev # NoRow
  /\ page.alerts = <<>>
  /\ \A n \in 1..Len(TrackedMetrics) : PrevUsable(TrackedMetrics[n])
  /\ ValueAt(page.latest, TrackedMetrics[3]) = 114
  /\ ValueAt(page.prev, TrackedMetrics[3]) = 100

(***************************************************************************)
(* The charted app downloads and the composite metric                      *)
(***************************************************************************)
\* C17: for every row of the normalised table in the displayed range, the
\* chart's derived broadcast app-download value equals the composite metric
\* used for the KPI, the alert and the evidence snapshot of that row (AOS +
\* iOS, an absent column contributing 0), whichever of the two source
\* columns are present.  Lines 324-327 chart 0 when either column is
\* absent, so this fails when exactly one is.
C17_ChartEqualsComposite ==
  \A k \in 1..Len(page.app_chart) :
    LET bar == page.app_chart[k]
    IN  /\ bar.value = AppDownloads(page.df, bar.pos).v
        /\ bar.value = Snapshot(page.df, bar.pos).app_dl
        /\ bar.value = SourceSum(page.df, bar.pos)
        /\ bar.pos = page.latest
             => FormatInt0(bar.value, FALSE) = KpiOf("app downloads").value

\* with both source columns present, or both absent, the charted value is
\* the composite
ChartAgreesUnlessOneAbsent ==
  Cardinality(AppSources \cap page.df.columns) # 1
  => \A k \in 1..Len(page.app_chart) :
       page.app_chart[k].value = SourceSum(page.df, page.app_chart[k].pos)
====
